---- MODULE Spec2Model ----
(***************************************************************************)
(* sabreur: barcode demultiplexing of FASTA/FASTQ reads.                   *)
(*                                                                         *)
(* The module models the barcode matcher bc_cmp (src/src/utils.rs) and the *)
(* single-end and paired-end demultiplexing engines se_fa_demux /          *)
(* pe_fa_demux (src/src/demux.rs; the FASTQ engines se_fq_demux and        *)
(* pe_fq_demux and the older copies in src/src/utils.rs have the same      *)
(* control flow).  A byte string is a sequence of one-character strings,   *)
(* a file is the sequence of the records appended to it.                   *)
(***************************************************************************)
EXTENDS Integers, Sequences, FiniteSets, TLC

VARIABLES
    mode,          \* "se": se_fa_demux is called, "pe": pe_fa_demux
    barcode_data,  \* Barcode: key -> Vec<File>; a File is its record sequence
    mismatch,      \* the mismatch argument
    nb_records,    \* HashMap<&[u8], i32>: key -> count, absent keys absent
    my_vec,        \* barcode_data.keys() collected, in the map's iteration order
    bc_len,        \* my_vec[0].len()
    is_unk_empty,  \* se_fa_demux: local flag
    unk1_empty,    \* pe_fa_demux: local flag of the forward pass
    unk2_empty,    \* pe_fa_demux: local flag of the reverse pass
    state,         \* "Idle", "Draining", "Done" (returned Ok), "Failed"
    pass,          \* the while loop the call is in: "forward" or "reverse"
    f_read,        \* records the forward iterator has yielded so far
    r_read,        \* records the reverse iterator has yielded so far
    read_error,    \* history: an iterator yielded Some(Err(_))
    write_error,   \* history: a write_fa call returned Err
    log,           \* history: one entry per loop iteration, in execution order
    format,        \* the format argument: the --format override, "No" for none
    file_format,   \* the compression of the forward (f) and reverse (r) input
    compression,   \* local `compression`: format read_file detected, overridden
    r_compression, \* pe_fa_demux: local `_compression` of the reverse input
    open_error,    \* history: the input ("f", "r") whose read_file failed
    reads,         \* the sequences the records of the input files may carry
    cleanup,       \* main: whether the cleanup ran and the unknown files removed
    run,           \* main: the command line, the file system and the position
    tab,           \* split_by_tab harness: the argument, the result
    cmp_bc,        \* bc_cmp harness: the bc argument
    cmp_seq,       \* bc_cmp harness: the seq argument
    cmp_m,         \* bc_cmp harness: the mismatch argument
    cmp_res        \* bc_cmp harness: "none" before the call, then the result

engVars == <<mode, barcode_data, mismatch, nb_records, my_vec, bc_len,
             is_unk_empty, unk1_empty, unk2_empty, state, pass, f_read,
             r_read, read_error, write_error, log, format, file_format,
             compression, r_compression, open_error, cleanup, reads>>
cmpVars == <<cmp_bc, cmp_seq, cmp_m, cmp_res>>
vars == <<engVars, cmpVars, run, tab>>
\* what no step of an engine call changes
restVars == <<cmpVars, format, file_format, cleanup, run, tab, reads>>

(***************************************************************************)
(* Bounds of the model.                                                    *)
(***************************************************************************)
\* records an input stream yields at most
MaxRecords == 2
\* the mismatch argument ranges over 0..MaxMismatch
MaxMismatch == 4
\* bc_cmp harness: longest barcode argument
MaxBcLen == 3
\* bc_cmp harness: longest sequence argument
MaxSeqLen == 4
\* split_by_tab harness: longest text
MaxTextLen == 4

(***************************************************************************)
(* Input data the model draws from.                                        *)
(***************************************************************************)
\* the sentinel key b"XXX" of the unknown files
XXX == <<"X", "X", "X">>
\* two real barcodes of equal length
BcA == <<"A", "A", "A", "A">>
BcB == <<"A", "A", "C", "C">>
\* the sets of real barcodes a table may hold beside the sentinel
Tables == {{}, {BcB}, {BcA, BcB}}
\* the sequences a record of an input stream may carry: BcB followed by a
\* base, a read that differs from BcA in its third and from BcB in its
\* fourth byte, and a read shorter than every key
Seqs == { <<"A", "A", "C", "C", "G">>,
          <<"A", "A", "C", "A", "G">>,
          <<"A", "A">> }
\* input streams with a read shorter than the barcodes and as long as the
\* sentinel
ShortSeqs == { <<"A", "A", "C", "C", "G">>,
               <<"A", "A", "C">> }
\* niffler::compression::Format
Formats == {"Gzip", "Bzip", "Lzma", "Zstd", "No"}
\* the bytes of the bc_cmp harness
Bytes == {"A", "C"}

\* all orders in which a HashMap may iterate over the key set S
Orders(S) ==
    {p \in [1..Cardinality(S) -> S] :
        \A i, j \in 1..Cardinality(S) : p[i] = p[j] => i = j}

\* sequences over S of length at most n
SeqsUpTo(S, n) == UNION {[1..k -> S] : k \in 0..n}

(***************************************************************************)
(* bc_cmp: bc.iter().zip(seq.iter()).map(|(a, b)| (a != b) as i32).sum()   *)
(* <= mismatch.  zip stops at the shorter of the two slices.               *)
(***************************************************************************)
Min(a, b) == IF a <= b THEN a ELSE b

RECURSIVE zip_sum(_, _, _)
zip_sum(bc, seq, i) ==
    IF i > Min(Len(bc), Len(seq)) THEN 0
    ELSE (IF bc[i] # seq[i] THEN 1 ELSE 0) + zip_sum(bc, seq, i + 1)

bc_cmp_lt(bc, seq, m) == zip_sum(bc, seq, 1) < m

bc_cmp(bc, seq, m) == zip_sum(bc, seq, 1) <= m

(***************************************************************************)
(* The loop body of the engines.                                           *)
(***************************************************************************)
\* &record.seq()[..bc_len]; the slice panics when bc_len > len
Slice(seq, n) == SubSeq(seq, 1, n)

SliceFails(seq, n) == n > Len(seq)

\* my_vec.iter().find(|&&x| bc_cmp(x, prefix, mismatch)): the index (from 1)
\* of the first key that passes, 0 for None
RECURSIVE find_from(_, _, _, _)
find_from(vec, prefix, m, i) ==
    IF i > Len(vec) THEN 0
    ELSE IF bc_cmp(vec[i], prefix, m) THEN i
    ELSE find_from(vec, prefix, m, i + 1)

RECURSIVE find_last_from(_, _, _, _)
find_last_from(vec, prefix, m, i) ==
    IF i < 1 THEN 0
    ELSE IF bc_cmp(vec[i], prefix, m) THEN i
    ELSE find_last_from(vec, prefix, m, i - 1)

find_last(vec, prefix, m) == find_last_from(vec, prefix, m, Len(vec))

find(vec, prefix, m) == find_from(vec, prefix, m, 1)

\* nb_records.entry(i).and_modify(|e| *e += 1).or_insert(1)
entry_insert_zero(nb, k) ==
    IF k \in DOMAIN nb THEN [nb EXCEPT ![k] = @ + 1] ELSE nb @@ (k :> 0)

entry_insert_one(nb, k) ==
    [x \in DOMAIN nb \cup {k} |-> IF x = k THEN 1 ELSE nb[x]]

entry_increment(nb, k) ==
    IF k \in DOMAIN nb THEN [nb EXCEPT ![k] = @ + 1] ELSE nb @@ (k :> 1)

\* write_fa(&barcode_data.get(k).unwrap()[ix], ..): the record is appended
\* to the file (the files are opened in append mode)
write_fa_lost(data, k, ix, rec) == data

write_fa_prepend(data, k, ix, rec) ==
    [data EXCEPT ![k][ix] = <<rec>> \o @]

write_fa_twice(data, k, ix, rec) ==
    [data EXCEPT ![k][ix] = Append(Append(@, rec), rec)]

write_fa(data, k, ix, rec) ==
    [data EXCEPT ![k][ix] = Append(@, rec)]

\* the index (from 1) of the file a pass writes: [0] forward, [1] reverse
FileIndexSame(side) == 1

FileIndex(side) == IF side = "f" THEN 1 ELSE 2

\* .expect("file name should be available") (demux.rs) and
\* .with_context(..)? (utils.rs): a failed write ends the call
AfterWriteIgnoreError(write_ok) == "Draining"

AfterWriteAlwaysFailed(write_ok) == "Failed"

AfterWrite(write_ok) == IF write_ok THEN "Draining" ELSE "Failed"

\* the else branch of `if let Some(i) = matched_barcode`
FlagAfter(flag, j) == IF j = 0 THEN FALSE ELSE flag

\* the compression argument of the write_fa calls of a loop: both loops of
\* pe_fa_demux pass `compression`
WriteCompression(side) == compression

\* if format != niffler::compression::Format::No { compression = format; }
OverrideIgnored(detected, fmt) == detected

Override(detected, fmt) == IF fmt # "No" THEN fmt ELSE detected

\* One iteration of `while let Some(Ok(record)) = records.next()` for the
\* record rec of the given side; write_ok is the outcome of write_fa.
\* The flag of the pass is assigned by the calling action.
Iterate(rec, write_ok) ==
    IF SliceFails(rec.seq, bc_len)
    THEN /\ state' = "Failed"
         /\ log' = Append(log, [rec |-> rec, j |-> 0, key |-> <<>>,
                                comp |-> WriteCompression(rec.side),
                                outcome |-> "panic"])
         /\ UNCHANGED <<barcode_data, nb_records, write_error>>
    ELSE LET j == find(my_vec, Slice(rec.seq, bc_len), mismatch)
             key == IF j # 0 THEN my_vec[j] ELSE XXX
         IN /\ nb_records' = IF j # 0 THEN entry_increment(nb_records, key)
                                      ELSE nb_records
            /\ barcode_data' =
                 IF write_ok
                 THEN write_fa(barcode_data, key, FileIndex(rec.side), rec)
                 ELSE barcode_data
            /\ write_error' = (write_error \/ ~write_ok)
            /\ state' = AfterWrite(write_ok)
            /\ log' = Append(log, [rec |-> rec, j |-> j, key |-> key,
                                   comp |-> WriteCompression(rec.side),
                                   outcome |-> IF write_ok THEN "written"
                                                           ELSE "write_failed"])

\* the flag of the pass after the iteration for rec
FlagOf(flag, rec) ==
    IF SliceFails(rec.seq, bc_len) THEN flag
    ELSE FlagAfter(flag, find(my_vec, Slice(rec.seq, bc_len), mismatch))

(***************************************************************************)
(* Initial state: the caller has built the table with empty, freshly       *)
(* created files and an empty nb_records, and has not called the engine.   *)
(***************************************************************************)
EmptyFiles(m) == IF m = "se" THEN << <<>> >> ELSE << <<>>, <<>> >>

CmpIdle ==
    /\ cmp_bc = <<>>
    /\ cmp_seq = <<>>
    /\ cmp_m = 0
    /\ cmp_res = "none"

EngIdle ==
    /\ nb_records = [k \in {} |-> 0]
    /\ my_vec = <<>>
    /\ bc_len = 0
    /\ is_unk_empty = TRUE
    /\ unk1_empty = TRUE
    /\ unk2_empty = TRUE
    /\ state = "Idle"
    /\ pass = "forward"
    /\ f_read = 0
    /\ r_read = 0
    /\ read_error = FALSE
    /\ write_error = FALSE
    /\ log = <<>>
    /\ compression = "No"
    /\ r_compression = "No"
    /\ open_error = "none"
    /\ cleanup = [done |-> FALSE, removed |-> {}]

\* an input file as main sees it: whether its name contains ".fastq" or
\* ".fq" (fq), ".fasta", ".fa" or ".fas" (fa), and whether read_file can open
\* it and detect its compression (ok)
Files == [fq : BOOLEAN, fa : BOOLEAN, ok : BOOLEAN]

PlainFile == [fq |-> FALSE, fa |-> TRUE, ok |-> TRUE]

\* the command lines main can be started with and the state of the
\* output directory, before the first statement of main
Runs ==
    {r \in [forward : Files, has_reverse : BOOLEAN, reverse : Files,
            mismatch_ok : BOOLEAN, outdir_exists : BOOLEAN, force : BOOLEAN,
            barcode : {"unreadable", "no_tab", "ok"}, pc : {"forward"},
            exit_code : {"none"}, dir : {"absent", "kept"},
            opened : {FALSE}, processed : {FALSE}] :
        /\ r.dir = (IF r.outdir_exists THEN "kept" ELSE "absent")
        /\ ~r.has_reverse => r.reverse = PlainFile}

\* split_by_tab not called
TabIdle ==
    tab = [string |-> <<>>, called |-> FALSE, ok |-> FALSE, fields |-> <<>>]

\* a single engine call with main left out
RunIdle ==
    run = [forward |-> PlainFile, has_reverse |-> FALSE, reverse |-> PlainFile,
           mismatch_ok |-> TRUE, outdir_exists |-> FALSE, force |-> FALSE,
           barcode |-> "ok", pc |-> "forward", exit_code |-> "none",
           dir |-> "absent", opened |-> FALSE, processed |-> FALSE]

\* uncompressed inputs and no --format option
PlainFormats ==
    /\ format = "No"
    /\ file_format = [f |-> "No", r |-> "No"]

Init ==
    /\ mode \in {"se", "pe"}
    /\ \E real \in Tables :
         barcode_data = [k \in real \cup {XXX} |-> EmptyFiles(mode)]
    /\ mismatch \in 0..MaxMismatch
    /\ PlainFormats
    /\ EngIdle
    /\ reads = Seqs
    /\ CmpIdle
    /\ RunIdle
    /\ TabIdle

(***************************************************************************)
(* se_fa_demux                                                             *)
(***************************************************************************)
\* read_file is called at the top of the engine, before the loops
ReadFilePointLate == state \in {"Idle", "Draining"}

ReadFilePoint == state = "Idle"

\* lines 26-44: keys collected in iteration order, bc_len, flag
SeStart ==
    /\ mode = "se"
    /\ state = "Idle"
    /\ my_vec' \in Orders(DOMAIN barcode_data)
    /\ bc_len' = Len(my_vec'[1])
    /\ is_unk_empty' = TRUE
    /\ compression' = Override(file_format.f, format)
    /\ state' = "Draining"
    /\ UNCHANGED <<mode, barcode_data, mismatch, nb_records, unk1_empty,
                   unk2_empty, pass, f_read, r_read, read_error, write_error,
                   log, r_compression, open_error>>
    /\ UNCHANGED restVars

\* line 26: read_file(file)? fails (File::open or niffler::get_reader)
SeOpenFail ==
    /\ mode = "se"
    /\ ReadFilePoint
    /\ state' = "Failed"
    /\ open_error' = "f"
    /\ UNCHANGED <<mode, barcode_data, mismatch, nb_records, my_vec, bc_len,
                   is_unk_empty, unk1_empty, unk2_empty, pass, f_read, r_read,
                   read_error, write_error, log, compression, r_compression>>
    /\ UNCHANGED restVars

\* lines 46-74: records.next() is Some(Ok(record))
SeIterate ==
    /\ mode = "se"
    /\ state = "Draining"
    /\ f_read < MaxRecords
    /\ \E s \in reads, write_ok \in BOOLEAN :
         LET rec == [side |-> "f", id |-> f_read + 1, seq |-> s]
         IN /\ Iterate(rec, write_ok)
            /\ is_unk_empty' = FlagOf(is_unk_empty, rec)
    /\ f_read' = f_read + 1
    /\ UNCHANGED <<mode, mismatch, my_vec, bc_len, unk1_empty, unk2_empty,
                   pass, r_read, read_error>>
    /\ UNCHANGED <<restVars, compression, r_compression, open_error>>

\* lines 46, 75: records.next() is None or Some(Err(_)): the pattern
\* Some(Ok(record)) does not match, the loop ends, Ok(..) is returned
SeReturn ==
    /\ mode = "se"
    /\ state = "Draining"
    /\ \E err \in BOOLEAN : read_error' = err
    /\ state' = "Done"
    /\ UNCHANGED <<mode, barcode_data, mismatch, nb_records, my_vec, bc_len,
                   is_unk_empty, unk1_empty, unk2_empty, pass, f_read, r_read,
                   write_error, log>>
    /\ UNCHANGED <<restVars, compression, r_compression, open_error>>

(***************************************************************************)
(* pe_fa_demux                                                             *)
(***************************************************************************)
\* lines 147-169
PeStart ==
    /\ mode = "pe"
    /\ state = "Idle"
    /\ my_vec' \in Orders(DOMAIN barcode_data)
    /\ bc_len' = Len(my_vec'[1])
    /\ unk1_empty' = TRUE
    /\ unk2_empty' = TRUE
    /\ compression' = Override(file_format.f, format)
    /\ r_compression' = file_format.r
    /\ state' = "Draining"
    /\ pass' = "forward"
    /\ UNCHANGED <<mode, barcode_data, mismatch, nb_records, is_unk_empty,
                   f_read, r_read, read_error, write_error, log, open_error>>
    /\ UNCHANGED restVars

\* lines 147-149: read_file(forward)? or read_file(reverse)? fails
PeOpenFail ==
    /\ mode = "pe"
    /\ ReadFilePoint
    /\ state' = "Failed"
    /\ \E input \in {"f", "r"} : open_error' = input
    /\ UNCHANGED <<mode, barcode_data, mismatch, nb_records, my_vec, bc_len,
                   is_unk_empty, unk1_empty, unk2_empty, pass, f_read, r_read,
                   read_error, write_error, log, compression, r_compression>>
    /\ UNCHANGED restVars

\* the reverse loop is entered when the forward loop has ended
ReverseLoopAnyTime(p) == TRUE

ReverseLoop(p) == p = "reverse"

\* lines 171-195: forward_records.next() is Some(Ok(f_rec))
PeForwardIterate ==
    /\ mode = "pe"
    /\ state = "Draining"
    /\ pass = "forward"
    /\ f_read < MaxRecords
    /\ \E s \in reads, write_ok \in BOOLEAN :
         LET rec == [side |-> "f", id |-> f_read + 1, seq |-> s]
         IN /\ Iterate(rec, write_ok)
            /\ unk1_empty' = FlagOf(unk1_empty, rec)
    /\ f_read' = f_read + 1
    /\ UNCHANGED <<mode, mismatch, my_vec, bc_len, is_unk_empty, unk2_empty,
                   pass, r_read, read_error>>
    /\ UNCHANGED <<restVars, compression, r_compression, open_error>>

\* line 171: forward_records.next() is None or Some(Err(_)): the forward
\* loop ends and the reverse loop begins
PeForwardEnd ==
    /\ mode = "pe"
    /\ state = "Draining"
    /\ pass = "forward"
    /\ \E err \in BOOLEAN : read_error' = err
    /\ pass' = "reverse"
    /\ UNCHANGED <<mode, barcode_data, mismatch, nb_records, my_vec, bc_len,
                   is_unk_empty, unk1_empty, unk2_empty, state, f_read,
                   r_read, write_error, log>>
    /\ UNCHANGED <<restVars, compression, r_compression, open_error>>

\* lines 197-221: reverse_records.next() is Some(Ok(r_rec))
PeReverseIterate ==
    /\ mode = "pe"
    /\ state = "Draining"
    /\ ReverseLoop(pass)
    /\ r_read < MaxRecords
    /\ \E s \in reads, write_ok \in BOOLEAN :
         LET rec == [side |-> "r", id |-> r_read + 1, seq |-> s]
         IN /\ Iterate(rec, write_ok)
            /\ unk2_empty' = FlagOf(unk2_empty, rec)
    /\ r_read' = r_read + 1
    /\ UNCHANGED <<mode, mismatch, my_vec, bc_len, is_unk_empty, unk1_empty,
                   pass, f_read, read_error>>
    /\ UNCHANGED <<restVars, compression, r_compression, open_error>>

\* lines 197, 222-223: reverse_records.next() is None or Some(Err(_))
PeReturn ==
    /\ mode = "pe"
    /\ state = "Draining"
    /\ pass = "reverse"
    /\ \E err \in BOOLEAN : read_error' = (read_error \/ err)
    /\ state' = "Done"
    /\ UNCHANGED <<mode, barcode_data, mismatch, nb_records, my_vec, bc_len,
                   is_unk_empty, unk1_empty, unk2_empty, pass, f_read, r_read,
                   write_error, log>>
    /\ UNCHANGED <<restVars, compression, r_compression, open_error>>

(***************************************************************************)
(* main: removal of the unknown files after the engine has returned Ok     *)
(***************************************************************************)
BoolStr(b) == IF b THEN "true" ELSE "false"

\* demux.rs line 222: format!("{}{}", unk1_empty, unk2_empty)
final_str(u1, u2) == BoolStr(u1) \o BoolStr(u2)

\* main.rs lines 260-262: the unknown file is removed if is_unk_empty
SeRemovedAlways(empty) == {1}

SeRemoved(empty) == IF empty THEN {1} ELSE {}

\* main.rs lines 346-353: the unknown files (1: R1, 2: R2) removed for a
\* status string
PeRemoved(unk_status) ==
    IF unk_status = "truetrue" THEN {1, 2}
    ELSE IF unk_status = "falsetrue" THEN {2}
    ELSE IF unk_status = "truefalse" THEN {1}
    ELSE {}

EngUnchanged ==
    UNCHANGED <<mode, barcode_data, mismatch, nb_records, my_vec, bc_len,
                is_unk_empty, unk1_empty, unk2_empty, state, pass, f_read,
                r_read, read_error, write_error, log, format, file_format,
                compression, r_compression, open_error, reads>>

SeCleanup ==
    /\ mode = "se"
    /\ state = "Done"
    /\ ~cleanup.done
    /\ cleanup' = [done |-> TRUE, removed |-> SeRemoved(is_unk_empty)]
    /\ EngUnchanged
    /\ UNCHANGED <<cmpVars, run, tab>>

PeCleanup ==
    /\ mode = "pe"
    /\ state = "Done"
    /\ ~cleanup.done
    /\ cleanup' = [done |-> TRUE,
                   removed |-> PeRemoved(final_str(unk1_empty, unk2_empty))]
    /\ EngUnchanged
    /\ UNCHANGED <<cmpVars, run, tab>>

Next ==
    \/ SeStart
    \/ SeOpenFail
    \/ SeIterate
    \/ SeReturn
    \/ PeStart
    \/ PeOpenFail
    \/ PeForwardIterate
    \/ PeForwardEnd
    \/ PeReverseIterate
    \/ PeReturn
    \/ SeCleanup
    \/ PeCleanup

Spec == Init /\ [][Next]_vars

\* an engine call for every format option and every compression of the
\* input files
InitFmt ==
    /\ mode \in {"se", "pe"}
    /\ barcode_data = [k \in {BcB, XXX} |-> EmptyFiles(mode)]
    /\ mismatch = 0
    /\ format \in Formats
    /\ file_format \in [f : Formats, r : Formats]
    /\ EngIdle
    /\ reads = Seqs
    /\ CmpIdle
    /\ RunIdle
    /\ TabIdle

SpecFmt == InitFmt /\ [][Next]_vars

\* an engine call on input files that hold a read of three bytes
InitShort ==
    /\ mode \in {"se", "pe"}
    /\ barcode_data = [k \in {BcB, XXX} |-> EmptyFiles(mode)]
    /\ mismatch \in 0..MaxMismatch
    /\ PlainFormats
    /\ EngIdle
    /\ reads = ShortSeqs
    /\ CmpIdle
    /\ RunIdle
    /\ TabIdle

SpecShort == InitShort /\ [][Next]_vars

(***************************************************************************)
(* bc_cmp on its own: the arguments are drawn from bounded sets and the    *)
(* function is applied once.                                               *)
(***************************************************************************)
InitCmp ==
    /\ mode = "se"
    /\ barcode_data = [k \in {XXX} |-> EmptyFiles("se")]
    /\ mismatch = 0
    /\ PlainFormats
    /\ EngIdle
    /\ reads = Seqs
    /\ RunIdle
    /\ TabIdle
    /\ cmp_bc \in SeqsUpTo(Bytes, MaxBcLen)
    /\ cmp_seq \in SeqsUpTo(Bytes, MaxSeqLen)
    /\ cmp_m \in -1..MaxMismatch
    /\ cmp_res = "none"

CallBcCmp ==
    /\ cmp_res = "none"
    /\ cmp_res' = IF bc_cmp(cmp_bc, cmp_seq, cmp_m) THEN "true" ELSE "false"
    /\ UNCHANGED <<cmp_bc, cmp_seq, cmp_m>>
    /\ UNCHANGED <<engVars, run, tab>>

NextCmp == CallBcCmp

SpecCmp == InitCmp /\ [][NextCmp]_vars

(***************************************************************************)
(* main: the extensions of the output file names                           *)
(***************************************************************************)
\* utils::to_compression_ext
to_compression_ext(c) ==
    IF c = "Gzip" THEN ".gz"
    ELSE IF c = "Bzip" THEN ".bz2"
    ELSE IF c = "Lzma" THEN ".xz"
    ELSE IF c = "Zstd" THEN ".zst"
    ELSE ""

\* main.rs lines 159-161, 209, 273: the extension of the single-end and
\* forward output files, from forward_file_compression
f_ext == to_compression_ext(Override(file_format.f, format))

\* main.rs lines 266-274: the extension of the reverse output files, from
\* reverse_file_compression
r_ext == to_compression_ext(Override(file_format.r, format))

(***************************************************************************)
(* split_by_tab (src/src/utils.rs); a text is a sequence of characters     *)
(***************************************************************************)
\* the characters of a text: a letter, the tab and the line feed
Chars == {"a", "\t", "\n"}

\* str::contains(char)
contains(string, c) == \E i \in 1..Len(string) : string[i] = c

\* the index of the first c in string (string contains c)
first_index(string, c) ==
    CHOOSE i \in 1..Len(string) :
        string[i] = c /\ \A h \in 1..(i - 1) : string[h] # c

\* str::split(char): the substrings between the occurrences of c; a string
\* without c, the empty string included, gives one substring
RECURSIVE split(_, _)
split(string, c) ==
    IF ~contains(string, c) THEN <<string>>
    ELSE LET i == first_index(string, c)
         IN <<SubSeq(string, 1, i - 1)>>
                \o split(SubSeq(string, i + 1, Len(string)), c)

\* str::lines(): the text split at line feeds, the last substring skipped
\* if it is empty
lines_keep_last(string) == split(string, "\n")

lines(string) ==
    LET parts == split(string, "\n")
    IN IF parts[Len(parts)] = <<>> THEN SubSeq(parts, 1, Len(parts) - 1)
       ELSE parts

\* utils.rs lines 208-217
split_by_tab(string) ==
    IF contains(string, "\t")
    THEN [ok |-> TRUE,
          fields |-> [i \in 1..Len(lines(string)) |->
                        split(lines(string)[i], "\t")]]
    ELSE [ok |-> FALSE, fields |-> <<>>]

InitTab ==
    /\ mode = "se"
    /\ barcode_data = [k \in {XXX} |-> EmptyFiles(mode)]
    /\ mismatch = 0
    /\ PlainFormats
    /\ EngIdle
    /\ reads = Seqs
    /\ CmpIdle
    /\ RunIdle
    /\ \E string \in SeqsUpTo(Chars, MaxTextLen) :
         tab = [string |-> string, called |-> FALSE, ok |-> FALSE,
                fields |-> <<>>]

CallSplitByTab ==
    /\ ~tab.called
    /\ tab' = [string |-> tab.string, called |-> TRUE,
               ok |-> split_by_tab(tab.string).ok,
               fields |-> split_by_tab(tab.string).fields]
    /\ UNCHANGED <<engVars, cmpVars, run>>

NextTab == CallSplitByTab

SpecTab == InitTab /\ [][NextTab]_vars

(***************************************************************************)
(* main: from the command line to the call of an engine                    *)
(***************************************************************************)
\* utils::get_file_type: the type is read off the file name
get_file_type(file) ==
    IF file.fq THEN "Fastq" ELSE IF file.fa THEN "Fasta" ELSE "None"

\* process::exit(code), or main returning Err (exit code 1, "FAILURE") or
\* panicking ("PANIC")
Exit(code) == run' = [run EXCEPT !.pc = "exit", !.exit_code = code]

Goto(pc) == run' = [run EXCEPT !.pc = pc]

\* lines 171-173: the types are compared in paired-end mode only
TypesDiffer(has_reverse, ft, rt) == has_reverse /\ ft # rt

\* lines 179-191: what main does with the output directory
OutdirStepForced(exists, force) == IF exists THEN "recreate" ELSE "create"

OutdirStep(exists, force) ==
    IF exists /\ ~force THEN "exit"
    ELSE IF exists /\ force THEN "recreate"
    ELSE "create"

EngAndCmpUnchanged == UNCHANGED <<engVars, cmpVars, tab>>

\* lines 108-116: get_file_type(forward)? opens the forward file
MainForward ==
    /\ run.pc = "forward"
    /\ IF run.forward.ok THEN Goto("options") ELSE Exit("FAILURE")
    /\ EngAndCmpUnchanged

\* lines 129-146: mis.parse::<i32>()?; format and level are restricted to
\* their possible values by the argument parser
MainOptions ==
    /\ run.pc = "options"
    /\ IF run.mismatch_ok THEN Goto("types") ELSE Exit("FAILURE")
    /\ EngAndCmpUnchanged

\* lines 170-176: get_file_type(reverse)? and the comparison of the types
MainTypes ==
    /\ run.pc = "types"
    /\ IF run.has_reverse /\ ~run.reverse.ok THEN Exit("FAILURE")
       ELSE IF TypesDiffer(run.has_reverse, get_file_type(run.forward),
                           get_file_type(run.reverse))
       THEN Exit("DATAERR")
       ELSE Goto("outdir")
    /\ EngAndCmpUnchanged

\* lines 178-191: the output directory; remove_dir_all and create_dir can
\* fail
MainOutdir ==
    /\ run.pc = "outdir"
    /\ LET step == OutdirStep(run.outdir_exists, run.force)
       IN \E fs_ok \in BOOLEAN :
            IF step = "exit"
            THEN /\ fs_ok
                 /\ Exit("CANTCREAT")
            ELSE IF step = "recreate"
            THEN IF fs_ok
                 THEN run' = [run EXCEPT !.pc = "barcode", !.dir = "recreated"]
                 ELSE \E d \in {"altered", "removed"} :
                        run' = [run EXCEPT !.pc = "exit",
                                           !.exit_code = "FAILURE", !.dir = d]
            ELSE IF fs_ok
                 THEN run' = [run EXCEPT !.pc = "barcode", !.dir = "created"]
                 ELSE Exit("FAILURE")
    /\ EngAndCmpUnchanged

\* lines 194-196: the barcode file is read and split_by_tab(..).unwrap()
MainBarcode ==
    /\ run.pc = "barcode"
    /\ IF run.barcode = "unreadable" THEN Exit("FAILURE")
       ELSE IF run.barcode = "no_tab" THEN Exit("PANIC")
       ELSE Goto("process")
    /\ EngAndCmpUnchanged

\* lines 204-515: the output files are opened, the engine is called, the
\* statistics are printed; FileType::None exits with a data error
MainProcess ==
    /\ run.pc = "process"
    /\ IF get_file_type(run.forward) = "None" THEN Exit("DATAERR")
       ELSE \E outcome \in {"open_failed", "engine_failed", "ok"} :
              run' = [run EXCEPT
                        !.pc = "exit",
                        !.opened = TRUE,
                        !.processed = (outcome # "open_failed"),
                        !.exit_code = IF outcome = "ok" THEN "OK"
                                      ELSE "FAILURE"]
    /\ EngAndCmpUnchanged

InitMain ==
    /\ mode = "se"
    /\ barcode_data = [k \in {XXX} |-> EmptyFiles(mode)]
    /\ mismatch = 0
    /\ PlainFormats
    /\ EngIdle
    /\ reads = Seqs
    /\ CmpIdle
    /\ run \in Runs
    /\ TabIdle

NextMain ==
    \/ MainForward
    \/ MainOptions
    \/ MainTypes
    \/ MainOutdir
    \/ MainBarcode
    \/ MainProcess

SpecMain == InitMain /\ [][NextMain]_vars

(***************************************************************************)
(* Definitions the properties are stated with.                             *)
(***************************************************************************)
\* the number of positions i < len(bc) where bc and seq differ
Hamming(bc, seq) == Cardinality({i \in 1..Len(bc) : bc[i] # seq[i]})

(***************************************************************************)
(* Properties                                                              *)
(***************************************************************************)
\* C1: for a sequence at least as long as the barcode, bc_cmp is true
\* exactly when the Hamming distance between the barcode and the first
\* len(bc) bytes of the sequence is at most the threshold
C1_BcCmpIsHamming ==
    (cmp_res # "none" /\ Len(cmp_seq) >= Len(cmp_bc))
        => (cmp_res = "true" <=> Hamming(cmp_bc, cmp_seq) <= cmp_m)

\* C1 witness: a call that returns true with exactly cmp_m >= 1 mismatches
\* on a sequence longer than the barcode
C1_Witness ==
    /\ cmp_res = "true"
    /\ Len(cmp_seq) > Len(cmp_bc)
    /\ cmp_m >= 1
    /\ Hamming(cmp_bc, cmp_seq) = cmp_m


(***************************************************************************)
(* The engines                                                             *)
(***************************************************************************)
\* every place <<key, file index, position>> of a record in an output file
Places ==
    UNION {UNION {{<<k, ix, p>> : p \in 1..Len(barcode_data[k][ix])} :
                    ix \in 1..Len(barcode_data[k])} :
             k \in DOMAIN barcode_data}

PlacesOf(rec) == {t \in Places : barcode_data[t[1]][t[2]][t[3]] = rec}

\* the records the iterators have yielded, in the order they were read
RecordsRead == {log[i].rec : i \in 1..Len(log)}

RealKeys == DOMAIN barcode_data \ {XXX}

RECURSIVE SumOver(_, _)
SumOver(f, S) ==
    IF S = {} THEN 0
    ELSE LET x == CHOOSE x \in S : TRUE IN f[x] + SumOver(f, S \ {x})

\* records in the files of the sentinel key
UnknownCount ==
    SumOver([ix \in 1..Len(barcode_data[XXX]) |-> Len(barcode_data[XXX][ix])],
            1..Len(barcode_data[XXX]))

C3_CountsSum ==
    state = "Done" =>
        SumOver(nb_records, DOMAIN nb_records \ {XXX}) + UnknownCount
            = f_read + r_read

\* C3 witness: a finished run with a counted real barcode and a record in
\* an unknown file
C3_Witness ==
    /\ state = "Done"
    /\ UnknownCount >= 1
    /\ \E k \in DOMAIN nb_records : k # XXX /\ nb_records[k] >= 1

\* C4: every dispatched record went to the first key, in the one order
\* my_vec of the call, that passes the matcher on the record's prefix, and
\* to the unknown branch only when no key passes
C4_FirstMatchWins ==
    \A i \in 1..Len(log) :
        log[i].outcome # "panic" =>
            LET prefix == Slice(log[i].rec.seq, bc_len)
                j == log[i].j
            IN /\ j \in 0..Len(my_vec)
               /\ j # 0 => /\ log[i].key = my_vec[j]
                           /\ bc_cmp(my_vec[j], prefix, mismatch)
               /\ \A e \in 1..Len(my_vec) :
                    (j = 0 \/ e < j) => ~bc_cmp(my_vec[e], prefix, mismatch)
               /\ log[i].outcome = "written" =>
                    \A t \in PlacesOf(log[i].rec) :
                        t[1] = (IF j # 0 THEN my_vec[j] ELSE XXX)

\* C4 witness: a record was written to the file of a key although a key
\* later in the order has a strictly smaller mismatch count
C4_Witness ==
    \E i \in 1..Len(log) :
        /\ log[i].outcome = "written"
        /\ log[i].j # 0
        /\ \E e \in (log[i].j + 1)..Len(my_vec) :
             zip_sum(my_vec[e], Slice(log[i].rec.seq, bc_len), 1)
                < zip_sum(my_vec[log[i].j], Slice(log[i].rec.seq, bc_len), 1)
        /\ PlacesOf(log[i].rec) # {}

\* position of a record in the order of reading
LogPos(rec) == CHOOSE i \in 1..Len(log) : log[i].rec = rec

\* C5: at return the flag of a side says "used" (the code's *_empty flag is
\* false) exactly when the sentinel's file of that side holds a record
C5_FlagIffUnknownWritten ==
    state = "Done" =>
        /\ mode = "se" =>
             (~is_unk_empty <=> Len(barcode_data[XXX][1]) > 0)
        /\ mode = "pe" =>
             /\ ~unk1_empty <=> Len(barcode_data[XXX][1]) > 0
             /\ ~unk2_empty <=> Len(barcode_data[XXX][2]) > 0

\* C6: once an input iterator has yielded a parse error the call is in the
\* Failed state: it neither goes on nor returns successfully
C6_ReadErrorFails == read_error => state = "Failed"

\* C7: after a failed write the call is Failed, the iteration of the failed
\* write is the last one (nothing is read, matched or written after it, the
\* write is not retried), the record of the failed write is in no file and
\* every record written before it is still in its file
C7_WriteErrorAborts ==
    write_error =>
        /\ state = "Failed"
        /\ log[Len(log)].outcome = "write_failed"
        /\ PlacesOf(log[Len(log)].rec) = {}
        /\ Len(log) = f_read + r_read
        /\ \A i \in 1..(Len(log) - 1) :
             /\ log[i].outcome = "written"
             /\ \E t \in PlacesOf(log[i].rec) : t[1] = log[i].key

\* C7 witness: a write failed after an earlier record had been written
C7_Witness ==
    /\ write_error
    /\ Len(log) >= 2
    /\ PlacesOf(log[1].rec) # {}

\* C8: in every file the records are in the order in which they were read,
\* and whenever the call is about to fetch a record (or has returned) every
\* record read so far has been written
C8_SinkOrderIsReadOrder ==
    /\ \A k \in DOMAIN barcode_data : \A ix \in 1..Len(barcode_data[k]) :
         \A p, q \in 1..Len(barcode_data[k][ix]) :
            p < q => LogPos(barcode_data[k][ix][p])
                        < LogPos(barcode_data[k][ix][q])
    /\ state \in {"Draining", "Done"} =>
         /\ Cardinality(Places) = Len(log)
         /\ \A i \in 1..Len(log) : log[i].outcome = "written"

\* C8 witness: a file holds two records and another file holds one
C8_Witness ==
    \E t, u \in Places : t[3] = 2 /\ u[1] # t[1]

\* C9: in a paired-end call no forward record is processed after a reverse
\* record, and a reverse record is processed only when the forward loop has
\* ended with every forward record written
C9_ForwardBeforeReverse ==
    mode = "pe" =>
        /\ \A i, j \in 1..Len(log) :
             i < j => ~(log[i].rec.side = "r" /\ log[j].rec.side = "f")
        /\ (\E i \in 1..Len(log) : log[i].rec.side = "r") =>
             /\ pass = "reverse"
             /\ \A i \in 1..Len(log) :
                  log[i].rec.side = "f" =>
                     /\ log[i].outcome = "written"
                     /\ PlacesOf(log[i].rec) # {}

\* C9 witness: a paired-end call returned after forward and reverse records
C9_Witness ==
    /\ mode = "pe"
    /\ state = "Done"
    /\ \E i, j \in 1..Len(log) :
         log[i].rec.side = "f" /\ log[j].rec.side = "r"

\* C10: in a paired-end call every first file holds forward records only
\* and every second file reverse records only, and a written record is in
\* the first (forward) or second (reverse) file of the key it was assigned
C10_ForwardFirstReverseSecond ==
    mode = "pe" =>
        /\ \A t \in Places :
             barcode_data[t[1]][t[2]][t[3]].side
                = (IF t[2] = 1 THEN "f" ELSE "r")
        /\ \A i \in 1..Len(log) :
             log[i].outcome = "written" =>
                PlacesOf(log[i].rec) # {} /\
                \A t \in PlacesOf(log[i].rec) :
                    /\ t[1] = log[i].key
                    /\ t[2] = (IF log[i].rec.side = "f" THEN 1 ELSE 2)

\* C10 witness: a forward and a reverse record with the same index matched
\* the same real key and are in its first and second file
C10_Witness ==
    /\ mode = "pe"
    /\ \E k \in RealKeys :
         /\ Len(barcode_data[k][1]) >= 1
         /\ Len(barcode_data[k][2]) >= 1
         /\ barcode_data[k][1][1].id = barcode_data[k][2][1].id

\* the key the loop body assigns a read to when the keys are visited in the
\* order o (the empty sequence when the prefix slice panics)
AssignedUnder(o, seq, m) ==
    IF SliceFails(seq, Len(o[1])) THEN <<>>
    ELSE LET j == find(o, Slice(seq, Len(o[1])), m)
         IN IF j # 0 THEN o[j] ELSE XXX

\* C11: the key a record is assigned to (and so the contents of the files,
\* the counts and the flags) is the same under every order in which the
\* table's keys can be iterated
C11_AssignmentIndependentOfOrder ==
    \A i \in 1..Len(log) :
        \A o \in Orders(DOMAIN barcode_data) :
            AssignedUnder(o, log[i].rec.seq, mismatch) = log[i].key

\* the first real barcode in the order the keys are visited
FirstReal(vec) == vec[CHOOSE i \in 1..Len(vec) :
                        vec[i] # XXX /\ \A h \in 1..(i - 1) : vec[h] = XXX]

\* C13: with mismatch = 0 a record goes to the file of a real barcode only
\* if its first bytes, as many as the barcode has, are equal to the barcode
C13_ExactMatchOnly ==
    mismatch = 0 =>
        \A i \in 1..Len(log) :
            (log[i].outcome = "written" /\ log[i].key # XXX) =>
                /\ Len(log[i].rec.seq) >= Len(log[i].key)
                /\ Slice(log[i].rec.seq, Len(log[i].key)) = log[i].key

\* C14: with real barcodes in the table and mismatch at least their length,
\* every record that is written goes to the file of the first real barcode
\* visited and is counted under it, and none goes to the unknown file
C14_AllMatchFirstBarcode ==
    (RealKeys # {} /\ \A k \in RealKeys : mismatch >= Len(k)) =>
        /\ \A i \in 1..Len(log) :
             log[i].outcome = "written" =>
                 /\ log[i].key = FirstReal(my_vec)
                 /\ nb_records[FirstReal(my_vec)] >= 1
        /\ UnknownCount = 0

\* C15: with a table that holds the sentinel only, every record that is
\* written goes to the sentinel's file, the flag of its side says "used"
\* from then on, and no count is recorded
C15_SentinelOnlyAllUnknown ==
    (RealKeys = {} /\ state \in {"Draining", "Done"}) =>
        /\ \A i \in 1..Len(log) :
             /\ log[i].key = XXX
             /\ PlacesOf(log[i].rec) # {}
             /\ IF mode = "se" THEN ~is_unk_empty
                ELSE IF log[i].rec.side = "f" THEN ~unk1_empty
                ELSE ~unk2_empty
        /\ DOMAIN nb_records = {}

\* C12: after the caller's cleanup of a run that returned Ok, an unknown
\* file (single-end: the one file; paired-end: R1 and R2, each on its own)
\* has been removed exactly when no record was written to it
C12_RemovedIffNeverWritten ==
    cleanup.done =>
        \A ix \in 1..Len(barcode_data[XXX]) :
            ix \in cleanup.removed <=> Len(barcode_data[XXX][ix]) = 0

\* the log entries of the writes of one side
WritesOf(side) == {i \in 1..Len(log) : log[i].rec.side = side}

C17_ReverseKeepsOwnFormat ==
    \A i \in WritesOf("r") :
        log[i].comp = IF format = "No" THEN file_format.r ELSE format

\* C18: a call whose read_file failed (single-end: the input; paired-end:
\* the forward or the reverse input) is Failed, has read no record, has
\* written to no file and has counted nothing
C18_OpenFailsBeforeRecords ==
    open_error # "none" =>
        /\ state = "Failed"
        /\ log = <<>>
        /\ f_read = 0
        /\ r_read = 0
        /\ Places = {}
        /\ DOMAIN nb_records = {}

\* C18 witness: a paired-end call that failed on opening the reverse input
C18_Witness ==
    /\ mode = "pe"
    /\ open_error = "r"
    /\ state = "Failed"

\* startup gets as far as the output directory: the inputs can be opened,
\* the mismatch option parses and, in paired-end mode, the types agree
ReachesOutdir ==
    /\ run.forward.ok
    /\ run.mismatch_ok
    /\ run.has_reverse =>
         /\ run.reverse.ok
         /\ get_file_type(run.forward) = get_file_type(run.reverse)

\* C19 as stated: with an existing output directory and no --force the
\* program exits with the can't-create code, the directory untouched, no
\* output file opened and no record processed
C19_ExistingDirCantCreat ==
    (run.outdir_exists /\ ~run.force /\ run.pc = "exit") =>
        /\ run.exit_code = "CANTCREAT"
        /\ run.dir = "kept"
        /\ ~run.opened
        /\ ~run.processed

\* C19, amended: with an existing output directory and no --force the
\* directory is never touched, no output file is opened and no record is
\* processed; the program exits with the can't-create code when startup
\* gets as far as the output directory, and with the error of the earlier
\* step (failure or data error) otherwise
C19_ExistingDirKept ==
    (run.outdir_exists /\ ~run.force) =>
        /\ run.dir = "kept"
        /\ ~run.opened
        /\ ~run.processed
        /\ run.pc \notin {"barcode", "process"}
        /\ run.pc = "exit" =>
             IF ReachesOutdir THEN run.exit_code = "CANTCREAT"
             ELSE run.exit_code \in {"FAILURE", "DATAERR"}

\* C19 witness: a paired-end command line with readable inputs of one type
\* has exited with the can't-create code on an existing directory
C19_Witness ==
    /\ run.outdir_exists
    /\ ~run.force
    /\ run.has_reverse
    /\ run.pc = "exit"
    /\ run.exit_code = "CANTCREAT"

\* C20: in paired-end mode with one FASTA and one FASTQ input the program
\* exits with the data-error code, the output directory as it was found and
\* no record processed
C20_TypeMismatchDataErr ==
    (/\ run.has_reverse
     /\ {get_file_type(run.forward), get_file_type(run.reverse)}
            = {"Fasta", "Fastq"}) =>
        /\ run.dir = (IF run.outdir_exists THEN "kept" ELSE "absent")
        /\ ~run.opened
        /\ ~run.processed
        /\ run.pc = "exit" => run.exit_code = "DATAERR"

\* C21: the sentinel key is never the key the scan selects: no log entry
\* of the match branch has the key XXX and no count is recorded under XXX
C21_SentinelNeverMatched ==
    /\ \A i \in 1..Len(log) : log[i].j # 0 => log[i].key # XXX
    /\ XXX \notin DOMAIN nb_records

\* C22: once the engine has collected the keys of a table with real
\* barcodes, bc_len is the length of a real barcode
C22_BcLenIsBarcodeLength ==
    (my_vec # <<>> /\ RealKeys # {}) => \E k \in RealKeys : bc_len = Len(k)

\* the engine is a sequential function: once called it keeps executing its
\* next statement, and main goes on to the cleanup when it has returned
SpecLive == Init /\ [][Next]_vars /\ WF_vars(Next)

\* the last iteration panicked on slicing the prefix of a short read
ShortReadPanic == log # <<>> /\ log[Len(log)].outcome = "panic"

\* the steps of the state machine
StateSteps ==
    {<<"Idle", "Draining">>, <<"Idle", "Failed">>, <<"Draining", "Done">>,
     <<"Draining", "Failed">>}

C24_ForwardErrorFails ==
    /\ [][(/\ mode = "pe"
           /\ pass = "forward"
           /\ \/ (read_error' /\ ~read_error)
              \/ (write_error' /\ ~write_error))
            => (state' = "Failed" /\ pass' = "forward")]_vars
    /\ []((mode = "pe" /\ pass = "forward" /\ state = "Failed") =>
            /\ r_read = 0
            /\ \A i \in 1..(Len(log) - 1) :
                 \E t \in PlacesOf(log[i].rec) : t[1] = log[i].key)

\* C25: a record whose sequence is shorter than the barcodes of the table
\* ends the call: its iteration panicked and is the last one, the call is
\* Failed, the record is in no file and the records written before it are
\* in their files
C25_ShortReadFails ==
    \A i \in 1..Len(log) :
        (RealKeys # {} /\ \A k \in RealKeys : Len(log[i].rec.seq) < Len(k)) =>
            /\ log[i].outcome = "panic"
            /\ state = "Failed"
            /\ i = Len(log)
            /\ PlacesOf(log[i].rec) = {}
            /\ \A h \in 1..(i - 1) :
                 \E t \in PlacesOf(log[h].rec) : t[1] = log[h].key

\* the sequences of parts joined with sep between them
RECURSIVE Join(_, _)
Join(parts, sep) ==
    IF Len(parts) = 0 THEN <<>>
    ELSE IF Len(parts) = 1 THEN parts[1]
    ELSE parts[1] \o <<sep>> \o Join(Tail(parts), sep)

\* the text the field lists stand for: fields joined by tabs, lines by
\* line feeds
TextOf(fields) ==
    Join([i \in 1..Len(fields) |-> Join(fields[i], "\t")], "\n")

\* C26: split_by_tab fails exactly on the texts without a tab; otherwise no
\* field holds a tab or a line feed, every line has a field, and the fields
\* joined by tabs and the lines joined by line feeds give back the text
\* (without its final line feed if it ends in one)
C26_SplitByTab ==
    tab.called =>
        /\ tab.ok <=> (\E i \in 1..Len(tab.string) : tab.string[i] = "\t")
        /\ tab.ok =>
             /\ \A i \in 1..Len(tab.fields) :
                  /\ Len(tab.fields[i]) >= 1
                  /\ \A h \in 1..Len(tab.fields[i]) :
                       \A p \in 1..Len(tab.fields[i][h]) :
                           tab.fields[i][h][p] \notin {"\t", "\n"}
             /\ IF tab.string[Len(tab.string)] = "\n"
                THEN TextOf(tab.fields) \o <<"\n">> = tab.string
                ELSE TextOf(tab.fields) = tab.string

\* C26 witness: a text of two lines, one without a tab (one field) and one
\* with a tab
C26_Witness ==
    /\ tab.called
    /\ tab.ok
    /\ Len(tab.fields) = 2
    /\ \E i \in 1..2 : Len(tab.fields[i]) = 1
    /\ \E i \in 1..2 : Len(tab.fields[i]) >= 2

\* the count the statistics hold for a key, 0 for a key without an entry
CountOf(k) == IF k \in DOMAIN nb_records THEN nb_records[k] ELSE 0

\* the iterations of one pass that took the match branch with the key k
MatchedBy(k, side) ==
    {i \in 1..Len(log) :
        log[i].j # 0 /\ log[i].key = k /\ log[i].rec.side = side}

\* C27: at Ok return of a paired-end call the count of every key is the
\* number of forward records matched to it plus the number of reverse
\* records matched to it, and the counts add up to the matched records of
\* both passes
C27_PairedCountsAddUp ==
    (mode = "pe" /\ state = "Done") =>
        /\ \A k \in DOMAIN barcode_data :
             CountOf(k) = Cardinality(MatchedBy(k, "f"))
                            + Cardinality(MatchedBy(k, "r"))
        /\ SumOver(nb_records, DOMAIN nb_records)
             = Cardinality({i \in 1..Len(log) : log[i].j # 0})

\* C27 witness: a paired-end call returned Ok with a real barcode matched
\* by a forward and by a reverse record and counted twice
C27_Witness ==
    /\ mode = "pe"
    /\ state = "Done"
    /\ \E k \in RealKeys :
         /\ MatchedBy(k, "f") # {}
         /\ MatchedBy(k, "r") # {}
         /\ CountOf(k) = 2

\* C28: at Ok return of a single-end call the count of every real barcode
\* is the number of records in its file, and the statistics hold entries
\* for keys of the table only, each with a count of at least 1
C28_CountIsSinkSize ==
    (mode = "se" /\ state = "Done") =>
        /\ \A k \in RealKeys : CountOf(k) = Len(barcode_data[k][1])
        /\ DOMAIN nb_records \subseteq DOMAIN barcode_data
        /\ \A k \in DOMAIN nb_records : nb_records[k] >= 1

\* C28 witness: a single-end call returned Ok with two records in the file
\* of one barcode and no entry for the other barcode
C28_Witness ==
    /\ mode = "se"
    /\ state = "Done"
    /\ \E k \in RealKeys : CountOf(k) = 2 /\ Len(barcode_data[k][1]) = 2
    /\ \E k \in RealKeys : k \notin DOMAIN nb_records

\* the thresholds above the one of the call
Raised == (mismatch + 1)..MaxMismatch

\* C29: raising the threshold never turns the matcher's answer for a key
\* and a read of the call from true to false, and a record written to the
\* file of a real barcode goes to a real barcode under every higher threshold
\* (same table, same iteration order)
C29_MonotoneInThreshold ==
    \A i \in 1..Len(log) : \A m2 \in Raised :
        log[i].outcome # "panic" =>
            /\ \A h \in 1..Len(my_vec) :
                 bc_cmp(my_vec[h], Slice(log[i].rec.seq, bc_len), mismatch)
                     => bc_cmp(my_vec[h], Slice(log[i].rec.seq, bc_len), m2)
            /\ (log[i].outcome = "written" /\ log[i].key # XXX)
                 => AssignedUnder(my_vec, log[i].rec.seq, m2) # XXX

\* C30: every write uses the compression whose extension main gave to the
\* name of the file written: f_ext for the single-end and forward files,
\* r_ext for the reverse files
C30_WriteFormatMatchesExtension ==
    \A i \in 1..Len(log) :
        to_compression_ext(log[i].comp)
            = (IF log[i].rec.side = "f" THEN f_ext ELSE r_ext)
====
